---- MODULE Spec2Model ----
(***************************************************************************)
(* The item publish workflow of the Listing microservice (src/main.py):    *)
(* the in-memory job registry `jobs`, the background worker                *)
(* run_publish_job, the handlers publish_item, get_job, update_item and    *)
(* delete_item, and the rows of the `items` table they read and write.     *)
(*                                                                         *)
(* Handlers are sync `def` endpoints and the worker is a sync background   *)
(* task, so FastAPI runs all of them on threadpool threads: a handler and  *)
(* the statements of a worker interleave.  The worker is therefore cut at  *)
(* every statement that writes shared state (a field of the shared Job     *)
(* object, a commit to the items table).  A handler's effect on shared     *)
(* state is one write (one commit, or one insertion into `jobs`), so a     *)
(* handler is one action.                                                  *)
(***************************************************************************)
EXTENDS Integers, FiniteSets, TLC

\* ------------------------------------------------------------------ bounds
NumItems == 2
MaxJobs == 2
MaxClock == 1
NumCategories == 2
NumMedia == 1
NumThreads == 2

ItemId == 1..NumItems
JobId == 1..MaxJobs
Time == 0..MaxClock
CategoryId == 1..NumCategories
MediaId == 1..NumMedia
Thread == 1..NumThreads

\* ------------------------------------------------- enumerations and texts
\* JobStatus (src/main.py:42-46)
PENDING == "pending"
IN_PROGRESS == "in_progress"
COMPLETED == "completed"
FAILED == "failed"
JobStatus == {PENDING, IN_PROGRESS, COMPLETED, FAILED}

\* ItemStatus (src/models/item.py:24-27)
ACTIVE == "active"
HIDDEN == "hidden"
SOLD == "sold"
ItemStatus == {ACTIVE, HIDDEN, SOLD}

\* ItemCondition (src/models/item.py:18-21)
COND_NEW == "new"
COND_USED == "used"
COND_REFURBISHED == "refurbished"
ItemCondition == {COND_NEW, COND_USED, COND_REFURBISHED}

\* result_message literals of publish_item and run_publish_job
AcceptedMsg == "Publish job accepted."
MissingMsg == "Item no longer exists."
PublishedMsg == "Item published successfully."

\* ItemUpdate.status left out of the PATCH body (exclude_unset) or null
Unset == "unset"

\* --------------------------------------------------------------- state
VARIABLES
    items,      \* the items table: item id -> [status, updated_at]
    jobs,       \* the dict `jobs`: job id -> Job
    pc,         \* per job id, the position of its run_publish_job task
    session,    \* per job id, the status the worker's session loaded (line 87)
    clock,      \* what datetime.utcnow() returns
    response,   \* the HTTP response produced by the step just taken
    categories, \* the ids of the rows of the categories table
    media,      \* the ids of the rows of the media table
    req         \* per request thread, the session of a handler that has
                \* passed its checks and not yet committed

vars == <<items, jobs, pc, session, clock, response, categories, media, req>>

\* The columns of an items row other than id and created_at, with the
\* item_media rows of the item as the set `media` (src/db.py:92-108).
ItemRow(name, description, status, condition, price, category_id, media_ids, now) ==
    [name |-> name, description |-> description, status |-> status,
     condition |-> condition, price |-> price, category_id |-> category_id,
     media |-> media_ids, updated_at |-> now]

NoJob ==
    [id |-> 0, item_id |-> 0, status |-> "none", created_at |-> 0,
     updated_at |-> 0, result_message |-> "none"]

\* generate_item_etag (lines 375-381): sha256 over "<id>:<updated_at>", taken
\* as collision-free, so the tag is the pair it is computed from.
generate_item_etag(item_id, row) == <<item_id, row.updated_at>>

\* No ETag header on a response, no If-None-Match header on a request.
NoETag == <<>>

\* The values a client can send as If-None-Match.
IfNoneMatch == {NoETag} \cup (ItemId \X Time)

NoResponse ==
    [op |-> "none", arg |-> 0, code |-> 0, location |-> 0, body |-> NoJob,
     etag |-> NoETag]

Reply(op, arg, code, location, body) ==
    [op |-> op, arg |-> arg, code |-> code, location |-> location, body |-> body,
     etag |-> NoETag]

\* Positions of a run_publish_job task.
PcNone == "none"
PcScheduled == "scheduled"
PcStampProgress == "l79"
PcSleep == "l83"
PcCommit == "l96"
PcFailStatus == "l89"
PcFailMessage == "l90"
PcFailStamp == "l91"
PcDoneStatus == "l101"
PcDoneMessage == "l102"
PcDoneStamp == "l103"
PcReturned == "returned"
PcRaised == "raised"

\* No handler holds a session.
Idle == [op |-> "idle"]

\* The service starts with an empty registry over a store that holds some
\* items, each in some status, with valid references.
Init ==
    /\ categories = CategoryId
    /\ media = MediaId
    /\ req = [t \in Thread |-> Idle]
    /\ \E S \in SUBSET ItemId :
          items \in [S -> {ItemRow("n1", "d1", st, COND_NEW, "9.99", 1, MediaId, 0) :
                              st \in ItemStatus}]
    /\ jobs = <<>>
    /\ pc = [j \in JobId |-> PcNone]
    /\ session = [j \in JobId |-> "none"]
    /\ clock = 0
    /\ response = NoResponse

\* The wall clock advances between any two steps, or does not.
Tick ==
    /\ clock < MaxClock
    /\ clock' = clock + 1
    /\ response' = NoResponse
    /\ UNCHANGED <<items, jobs, pc, session, categories, media, req>>

\* ------------------------------------------------------------- handlers

\* uuid4() (line 592): an id no Job has; which one is immaterial.
NewJobId ==
    CHOOSE id \in JobId \ DOMAIN jobs : \A k \in JobId \ DOMAIN jobs : id <= k

\* The Job built at lines 590-598.
NewJob(id, item_id, now) ==
    [id |-> id, item_id |-> item_id, status |-> PENDING, created_at |-> now,
     updated_at |-> now, result_message |-> AcceptedMsg]

\* publish_item with line 602 (add_task) left out: the Job is stored but no
\* worker is scheduled for it.
PublishItem_NoSchedule(item_id) ==
    IF item_id \notin DOMAIN items
    THEN /\ response' = Reply("publish_item", item_id, 404, 0, NoJob)
         /\ UNCHANGED <<items, jobs, pc, session, clock, categories, media, req>>
    ELSE /\ Cardinality(DOMAIN jobs) < MaxJobs
         /\ LET id == NewJobId
                job == NewJob(id, item_id, clock)
            IN /\ jobs' = (id :> job) @@ jobs
               /\ response' = Reply("publish_item", item_id, 202, id, job)
         /\ UNCHANGED <<items, pc, session, clock, categories, media, req>>

\* publish_item with the existence check of lines 586-588 left out.
PublishItem_NoCheck(item_id) ==
    /\ Cardinality(DOMAIN jobs) < MaxJobs
    /\ LET id == NewJobId
           job == NewJob(id, item_id, clock)
       IN /\ jobs' = (id :> job) @@ jobs
          /\ pc' = [pc EXCEPT ![id] = PcScheduled]
          /\ response' = Reply("publish_item", item_id, 202, id, job)
    /\ UNCHANGED <<items, session, clock, categories, media, req>>

\* publish_item calling run_publish_job(job.id) itself in place of add_task:
\* the worker's first statements run before the response is produced.
PublishItem_Inline(item_id) ==
    IF item_id \notin DOMAIN items
    THEN /\ response' = Reply("publish_item", item_id, 404, 0, NoJob)
         /\ UNCHANGED <<items, jobs, pc, session, clock, categories, media, req>>
    ELSE /\ Cardinality(DOMAIN jobs) < MaxJobs
         /\ LET id == NewJobId
                job == [NewJob(id, item_id, clock) EXCEPT !.status = IN_PROGRESS]
            IN /\ jobs' = (id :> job) @@ jobs
               /\ pc' = [pc EXCEPT ![id] = PcStampProgress]
               /\ response' = Reply("publish_item", item_id, 202, id, job)
         /\ UNCHANGED <<items, session, clock, categories, media, req>>

\* POST /items/{item_id}/publish (lines 575-606).
PublishItem(item_id) ==
    IF item_id \notin DOMAIN items
    THEN /\ response' = Reply("publish_item", item_id, 404, 0, NoJob)
         /\ UNCHANGED <<items, jobs, pc, session, clock, categories, media, req>>
    ELSE /\ Cardinality(DOMAIN jobs) < MaxJobs
         /\ LET id == NewJobId
                job == NewJob(id, item_id, clock)
            IN /\ jobs' = (id :> job) @@ jobs
               /\ pc' = [pc EXCEPT ![id] = PcScheduled]
               /\ response' = Reply("publish_item", item_id, 202, id, job)
         /\ UNCHANGED <<items, session, clock, categories, media, req>>

\* get_job written with jobs.pop(job_id, None) in place of jobs.get(job_id).
GetJob_Pop(job_id) ==
    /\ response' = IF job_id \in DOMAIN jobs
                   THEN Reply("get_job", job_id, 200, 0, jobs[job_id])
                   ELSE Reply("get_job", job_id, 404, 0, NoJob)
    /\ jobs' = [k \in DOMAIN jobs \ {job_id} |-> jobs[k]]
    /\ UNCHANGED <<items, pc, session, clock, categories, media, req>>

\* GET /jobs/{job_id} (lines 609-617).  The handler returns the Job object
\* of the registry itself; the response body is what that object holds when
\* the response is serialised.
GetJob(job_id) ==
    /\ response' = IF job_id \in DOMAIN jobs
                   THEN Reply("get_job", job_id, 200, 0, jobs[job_id])
                   ELSE Reply("get_job", job_id, 404, 0, NoJob)
    /\ UNCHANGED <<items, jobs, pc, session, clock, categories, media, req>>

\* PATCH /items/{item_id} (lines 504-561), for the columns the publish
\* workflow reads and writes: status (lines 521-522) and updated_at (line
\* 548), committed together at line 549.
UpdateItem(item_id, status) ==
    /\ IF item_id \notin DOMAIN items
       THEN /\ response' = Reply("update_item", item_id, 404, 0, NoJob)
            /\ UNCHANGED items
       ELSE /\ items' = [items EXCEPT ![item_id] =
                           [@ EXCEPT !.status = IF status = Unset THEN @ ELSE status,
                                     !.updated_at = clock]]
            /\ response' = Reply("update_item", item_id, 200, 0, NoJob)
    /\ UNCHANGED <<jobs, pc, session, clock, categories, media, req>>

\* delete_item also dropping the Jobs of the deleted item from `jobs`.
DeleteItem_PurgeJobs(item_id) ==
    /\ IF item_id \notin DOMAIN items
       THEN /\ response' = Reply("delete_item", item_id, 404, 0, NoJob)
            /\ UNCHANGED <<items, jobs>>
       ELSE /\ items' = [k \in DOMAIN items \ {item_id} |-> items[k]]
            /\ jobs' = [k \in {j \in DOMAIN jobs : jobs[j].item_id # item_id}
                           |-> jobs[k]]
            /\ response' = Reply("delete_item", item_id, 204, 0, NoJob)
    /\ UNCHANGED <<pc, session, clock, categories, media, req>>

\* GET /items/{item_id} (lines 481-501).
GetItem(item_id, if_none_match) ==
    /\ response' =
          IF item_id \notin DOMAIN items
          THEN Reply("get_item", item_id, 404, 0, NoJob)
          ELSE IF if_none_match = generate_item_etag(item_id, items[item_id])
          THEN Reply("get_item", item_id, 304, 0, NoJob)
          ELSE [Reply("get_item", item_id, 200, 0, NoJob) EXCEPT
                   !.etag = generate_item_etag(item_id, items[item_id])]
    /\ UNCHANGED <<items, jobs, pc, session, clock, categories, media, req>>

\* DELETE /items/{item_id} (lines 564-572).
DeleteItem(item_id) ==
    /\ IF item_id \notin DOMAIN items
       THEN /\ response' = Reply("delete_item", item_id, 404, 0, NoJob)
            /\ UNCHANGED items
       ELSE /\ items' = [k \in DOMAIN items \ {item_id} |-> items[k]]
            /\ response' = Reply("delete_item", item_id, 204, 0, NoJob)
    /\ UNCHANGED <<jobs, pc, session, clock, categories, media, req>>

\* ------------------------------------------------- run_publish_job(job_id)
\* `job` is the object stored in `jobs` (line 73 returns a reference), so
\* every assignment to one of its fields is at once a write to the registry
\* and the stores of lines 80, 92 and 104 change nothing.

WorkerStep(job_id, next) ==
    /\ pc' = [pc EXCEPT ![job_id] = next]
    /\ response' = NoResponse

\* run_publish_job with line 78 left out: the Job is not marked IN_PROGRESS.
WorkerBegin_NoMark(job_id) ==
    /\ pc[job_id] = PcScheduled
    /\ WorkerStep(job_id, IF job_id \in DOMAIN jobs THEN PcStampProgress ELSE PcReturned)
    /\ UNCHANGED <<items, jobs, session, clock, categories, media, req>>

\* Lines 73-78: look the Job up, return if there is none, else mark it.
WorkerBegin(job_id) ==
    /\ pc[job_id] = PcScheduled
    /\ IF job_id \notin DOMAIN jobs
       THEN /\ WorkerStep(job_id, PcReturned)
            /\ UNCHANGED jobs
       ELSE /\ jobs' = [jobs EXCEPT ![job_id].status = IN_PROGRESS]
            /\ WorkerStep(job_id, PcStampProgress)
    /\ UNCHANGED <<items, session, clock, categories, media, req>>

\* Lines 79-80.
WorkerStampProgress(job_id) ==
    /\ pc[job_id] = PcStampProgress
    /\ jobs' = [jobs EXCEPT ![job_id].updated_at = clock]
    /\ WorkerStep(job_id, PcSleep)
    /\ UNCHANGED <<items, session, clock, categories, media, req>>

\* Lines 83-88: after the sleep a new session reads the item's row.
WorkerQuery(job_id) ==
    /\ pc[job_id] = PcSleep
    /\ LET item_id == jobs[job_id].item_id
       IN IF item_id \notin DOMAIN items
          THEN /\ WorkerStep(job_id, PcFailStatus)
               /\ UNCHANGED session
          ELSE /\ session' = [session EXCEPT ![job_id] = items[item_id].status]
               /\ WorkerStep(job_id, PcCommit)
    /\ UNCHANGED <<items, jobs, clock, categories, media, req>>

\* Line 89 written with the status of line 101.
WorkerFailStatus_Completed(job_id) ==
    /\ pc[job_id] = PcFailStatus
    /\ jobs' = [jobs EXCEPT ![job_id].status = COMPLETED]
    /\ WorkerStep(job_id, PcFailMessage)
    /\ UNCHANGED <<items, session, clock, categories, media, req>>

\* Line 89.
WorkerFailStatus(job_id) ==
    /\ pc[job_id] = PcFailStatus
    /\ jobs' = [jobs EXCEPT ![job_id].status = FAILED]
    /\ WorkerStep(job_id, PcFailMessage)
    /\ UNCHANGED <<items, session, clock, categories, media, req>>

\* Line 90.
WorkerFailMessage(job_id) ==
    /\ pc[job_id] = PcFailMessage
    /\ jobs' = [jobs EXCEPT ![job_id].result_message = MissingMsg]
    /\ WorkerStep(job_id, PcFailStamp)
    /\ UNCHANGED <<items, session, clock, categories, media, req>>

\* Lines 91-93 followed by a retry: the task is scheduled again.
WorkerFailStamp_Retry(job_id) ==
    /\ pc[job_id] = PcFailStamp
    /\ jobs' = [jobs EXCEPT ![job_id].updated_at = clock]
    /\ WorkerStep(job_id, PcScheduled)
    /\ UNCHANGED <<items, session, clock, categories, media, req>>

\* Lines 91-93, then the finally clause.
WorkerFailStamp(job_id) ==
    /\ pc[job_id] = PcFailStamp
    /\ jobs' = [jobs EXCEPT ![job_id].updated_at = clock]
    /\ WorkerStep(job_id, PcReturned)
    /\ UNCHANGED <<items, session, clock, categories, media, req>>

\* The flush with line 96 left out: only updated_at is written.
FlushedItem_KeepStatus(row, loaded, now) ==
    [row EXCEPT !.updated_at = now]

\* The flush writing the whole row back with an empty media collection.
FlushedItem_DropMedia(row, loaded, now) ==
    [row EXCEPT !.status = ACTIVE, !.updated_at = now, !.media = {}]

\* The UPDATE the session flushes at line 98.  The unit of work writes the
\* columns whose value differs from the loaded one: updated_at always,
\* status only if the row was not loaded as ACTIVE.
FlushedItem(row, loaded, now) ==
    [row EXCEPT !.status = IF loaded = ACTIVE THEN @ ELSE ACTIVE,
                !.updated_at = now]

\* Lines 96-98.  The commit raises when the row is gone (the UPDATE matches
\* no row) or when the store fails; there is no except clause, so the
\* exception leaves run_publish_job through the finally clause of line 105.
WorkerCommit(job_id) ==
    /\ pc[job_id] = PcCommit
    /\ LET item_id == jobs[job_id].item_id
       IN \E fault \in BOOLEAN :
            IF fault \/ item_id \notin DOMAIN items
            THEN /\ WorkerStep(job_id, PcRaised)
                 /\ UNCHANGED items
            ELSE /\ items' = [items EXCEPT ![item_id] =
                                FlushedItem(@, session[job_id], clock)]
                 /\ WorkerStep(job_id, PcDoneStatus)
    /\ session' = [session EXCEPT ![job_id] = "none"]
    /\ UNCHANGED <<jobs, clock, categories, media, req>>

\* Line 101 applied to every Job that is IN_PROGRESS, not to `job` alone.
WorkerDoneStatus_All(job_id) ==
    /\ pc[job_id] = PcDoneStatus
    /\ jobs' = [k \in DOMAIN jobs |->
                  IF jobs[k].status = IN_PROGRESS
                  THEN [jobs[k] EXCEPT !.status = COMPLETED]
                  ELSE jobs[k]]
    /\ WorkerStep(job_id, PcDoneMessage)
    /\ UNCHANGED <<items, session, clock, categories, media, req>>

\* Line 101.
WorkerDoneStatus(job_id) ==
    /\ pc[job_id] = PcDoneStatus
    /\ jobs' = [jobs EXCEPT ![job_id].status = COMPLETED]
    /\ WorkerStep(job_id, PcDoneMessage)
    /\ UNCHANGED <<items, session, clock, categories, media, req>>

\* Line 102.
WorkerDoneMessage(job_id) ==
    /\ pc[job_id] = PcDoneMessage
    /\ jobs' = [jobs EXCEPT ![job_id].result_message = PublishedMsg]
    /\ WorkerStep(job_id, PcDoneStamp)
    /\ UNCHANGED <<items, session, clock, categories, media, req>>

\* Lines 103-106.
WorkerDoneStamp(job_id) ==
    /\ pc[job_id] = PcDoneStamp
    /\ jobs' = [jobs EXCEPT ![job_id].updated_at = clock]
    /\ WorkerStep(job_id, PcReturned)
    /\ UNCHANGED <<items, session, clock, categories, media, req>>

Worker(job_id) ==
    \/ WorkerBegin(job_id)
    \/ WorkerStampProgress(job_id)
    \/ WorkerQuery(job_id)
    \/ WorkerFailStatus(job_id)
    \/ WorkerFailMessage(job_id)
    \/ WorkerFailStamp(job_id)
    \/ WorkerCommit(job_id)
    \/ WorkerDoneStatus(job_id)
    \/ WorkerDoneMessage(job_id)
    \/ WorkerDoneStamp(job_id)

Next ==
    \/ Tick
    \/ \E item_id \in ItemId : PublishItem(item_id)
    \/ \E job_id \in JobId : GetJob(job_id)
    \/ \E item_id \in ItemId : \E status \in ItemStatus \cup {Unset} :
          UpdateItem(item_id, status)
    \/ \E item_id \in ItemId : DeleteItem(item_id)
    \/ \E job_id \in JobId : Worker(job_id)

Spec == Init /\ [][Next]_vars

\* Conditional reads of items between updates of them.
NextRead ==
    \/ Tick
    \/ \E item_id \in ItemId : \E if_none_match \in IfNoneMatch :
          GetItem(item_id, if_none_match)
    \/ \E item_id \in ItemId : \E status \in ItemStatus \cup {Unset} :
          UpdateItem(item_id, status)

SpecRead == Init /\ [][NextRead]_vars

\* ------------------------------------------------------ the catalog handlers
\* Each handler runs in a request thread with a session of its own (get_db):
\* its queries read the store, its writes stay in the session until
\* db.commit() sends them, and an exception closes the session without
\* sending anything (src/db.py:116-121, autoflush off at line 48).

\* The store starts with every category and media row and no item.
InitCatalog ==
    /\ categories = CategoryId
    /\ media = MediaId
    /\ items = <<>>
    /\ req = [t \in Thread |-> Idle]
    /\ jobs = <<>>
    /\ pc = [j \in JobId |-> PcNone]
    /\ session = [j \in JobId |-> "none"]
    /\ clock = 0
    /\ response = NoResponse

\* The foreign keys of items.category_id and item_media.media_id
\* (src/db.py:84-89, 102): a transaction commits only if every reference of
\* the rows it leaves behind resolves.
StoreAccepts_NoForeignKeys(cats, meds, its) == TRUE

StoreAccepts(cats, meds, its) ==
    \A i \in DOMAIN its :
       /\ its[i].category_id \in cats
       /\ its[i].media \subseteq meds

\* The id the column default gives a new items row (uuid4, src/db.py:95).
NewItemId == CHOOSE i \in ItemId \ DOMAIN items : \A k \in ItemId \ DOMAIN items : i <= k

\* ItemCreate bodies (src/models/item.py:133-143).
ItemCreate ==
    [name : {"n1"}, category : CategoryId, media : SUBSET MediaId]

\* ItemUpdate bodies (src/models/item.py:150-166); `fields` is what
\* model_dump(exclude_unset=True) keeps; a field it drops has one value.
ItemUpdate ==
    {u \in [fields : SUBSET {"name", "category", "media"},
            name : {"n2"}, category : CategoryId, media : SUBSET MediaId] :
        /\ "category" \notin u.fields => \A c \in CategoryId : u.category <= c
        /\ "media" \notin u.fields => u.media = {}}

\* A request thread able to take a request.
Free(t) == req[t].op = "idle"

\* The rows create_item requests in flight are about to insert.
Creating == {t \in Thread : req[t].op = "create_item"}

\* POST /items up to the commit (lines 384-410).
CreateItemBegin(t, payload) ==
    /\ Free(t)
    /\ Cardinality(DOMAIN items) + Cardinality(Creating) < NumItems
    /\ IF payload.category \notin categories
       THEN /\ response' = Reply("create_item", 0, 400, 0, NoJob)
            /\ UNCHANGED req
       ELSE IF ~ (payload.media \subseteq media)
       THEN /\ response' = Reply("create_item", 0, 400, 0, NoJob)
            /\ UNCHANGED req
       ELSE /\ req' = [req EXCEPT ![t] =
                         [op |-> "create_item",
                          row |-> ItemRow(payload.name, "d1", ACTIVE, COND_NEW, "9.99",
                                          payload.category, payload.media, clock)]]
            /\ response' = NoResponse
    /\ UNCHANGED <<items, jobs, pc, session, clock, categories, media>>

\* POST /items from db.commit() on (lines 411-424).
CreateItemCommit(t) ==
    /\ req[t].op = "create_item"
    /\ LET id == NewItemId
           stored == [k \in DOMAIN items \cup {id} |->
                         IF k = id THEN req[t].row ELSE items[k]]
       IN IF StoreAccepts(categories, media, stored)
          THEN /\ items' = stored
               /\ response' = Reply("create_item", id, 201, id, NoJob)
          ELSE /\ response' = Reply("create_item", 0, 500, 0, NoJob)
               /\ UNCHANGED items
    /\ req' = [req EXCEPT ![t] = Idle]
    /\ UNCHANGED <<jobs, pc, session, clock, categories, media>>

\* update_item answering 400 after flushing the fields it had assigned.
PatchItemBegin_FlushOnReject(t, item_id, update) ==
    /\ Free(t)
    /\ item_id \in DOMAIN items
    /\ "category" \in update.fields
    /\ update.category \notin categories
    /\ items' = [items EXCEPT ![item_id].name =
                    IF "name" \in update.fields THEN update.name ELSE @]
    /\ response' = Reply("update_item", item_id, 400, 0, NoJob)
    /\ UNCHANGED <<req, jobs, pc, session, clock, categories, media>>

\* PATCH /items/{item_id} up to the commit (lines 504-548). The session keeps
\* the columns whose assigned value differs from the loaded one, and the
\* item_media rows to insert and to delete.
PatchItemBegin(t, item_id, update) ==
    /\ Free(t)
    /\ IF item_id \notin DOMAIN items
       THEN /\ response' = Reply("update_item", item_id, 404, 0, NoJob)
            /\ UNCHANGED req
       ELSE IF "category" \in update.fields /\ update.category \notin categories
       THEN /\ response' = Reply("update_item", item_id, 400, 0, NoJob)
            /\ UNCHANGED req
       ELSE IF "media" \in update.fields /\ ~ (update.media \subseteq media)
       THEN /\ response' = Reply("update_item", item_id, 400, 0, NoJob)
            /\ UNCHANGED req
       ELSE LET loaded == items[item_id]
                name == IF "name" \in update.fields THEN update.name ELSE loaded.name
                category == IF "category" \in update.fields
                            THEN update.category ELSE loaded.category_id
                new_media == IF "media" \in update.fields
                             THEN update.media ELSE loaded.media
            IN /\ req' = [req EXCEPT ![t] =
                            [op |-> "update_item", id |-> item_id,
                             dirty |-> {c \in {"name"} : name # loaded.name}
                                       \cup {c \in {"category_id"} :
                                               category # loaded.category_id},
                             name |-> name, category_id |-> category,
                             added |-> new_media \ loaded.media,
                             removed |-> loaded.media \ new_media,
                             updated_at |-> clock]]
               /\ response' = NoResponse
    /\ UNCHANGED <<items, jobs, pc, session, clock, categories, media>>

\* PATCH /items/{item_id} from db.commit() on (lines 549-561): the UPDATE of
\* the changed columns and the DELETEs and INSERTs on item_media, in one
\* transaction. item_media's primary key (src/db.py:87-88) refuses a row that
\* is already there.
PatchItemCommit(t) ==
    /\ req[t].op = "update_item"
    /\ LET r == req[t]
           row == items[r.id]
           stored == [items EXCEPT ![r.id] =
                        [row EXCEPT
                           !.name = IF "name" \in r.dirty THEN r.name ELSE @,
                           !.category_id = IF "category_id" \in r.dirty
                                           THEN r.category_id ELSE @,
                           !.media = (@ \ r.removed) \cup r.added,
                           !.updated_at = r.updated_at]]
       IN IF r.added \cap row.media = {} /\ StoreAccepts(categories, media, stored)
          THEN /\ items' = stored
               /\ response' = Reply("update_item", r.id, 200, 0, NoJob)
          ELSE /\ response' = Reply("update_item", r.id, 500, 0, NoJob)
               /\ UNCHANGED items
    /\ req' = [req EXCEPT ![t] = Idle]
    /\ UNCHANGED <<jobs, pc, session, clock, categories, media>>

\* DELETE /categories/{category_id} up to the commit (lines 254-273).
DeleteCategoryBegin(t, category_id) ==
    /\ Free(t)
    /\ IF category_id \notin categories
       THEN /\ response' = Reply("delete_category", category_id, 404, 0, NoJob)
            /\ UNCHANGED req
       ELSE IF \E i \in DOMAIN items : items[i].category_id = category_id
       THEN /\ response' = Reply("delete_category", category_id, 400, 0, NoJob)
            /\ UNCHANGED req
       ELSE /\ req' = [req EXCEPT ![t] = [op |-> "delete_category", id |-> category_id]]
            /\ response' = NoResponse
    /\ UNCHANGED <<items, jobs, pc, session, clock, categories, media>>

\* DELETE /categories/{category_id} from db.commit() on (lines 274-275).
DeleteCategoryCommit(t) ==
    /\ req[t].op = "delete_category"
    /\ IF StoreAccepts(categories \ {req[t].id}, media, items)
       THEN /\ categories' = categories \ {req[t].id}
            /\ response' = Reply("delete_category", req[t].id, 204, 0, NoJob)
       ELSE /\ response' = Reply("delete_category", req[t].id, 500, 0, NoJob)
            /\ UNCHANGED categories
    /\ req' = [req EXCEPT ![t] = Idle]
    /\ UNCHANGED <<items, jobs, pc, session, clock, media>>

\* DELETE /media/{media_id} up to the commit (lines 342-355).
DeleteMediaBegin(t, media_id) ==
    /\ Free(t)
    /\ IF media_id \notin media
       THEN /\ response' = Reply("delete_media", media_id, 404, 0, NoJob)
            /\ UNCHANGED req
       ELSE IF \E i \in DOMAIN items : media_id \in items[i].media
       THEN /\ response' = Reply("delete_media", media_id, 400, 0, NoJob)
            /\ UNCHANGED req
       ELSE /\ req' = [req EXCEPT ![t] = [op |-> "delete_media", id |-> media_id]]
            /\ response' = NoResponse
    /\ UNCHANGED <<items, jobs, pc, session, clock, categories, media>>

\* DELETE /media/{media_id} from db.commit() on (lines 356-357).
DeleteMediaCommit(t) ==
    /\ req[t].op = "delete_media"
    /\ IF StoreAccepts(categories, media \ {req[t].id}, items)
       THEN /\ media' = media \ {req[t].id}
            /\ response' = Reply("delete_media", req[t].id, 204, 0, NoJob)
       ELSE /\ response' = Reply("delete_media", req[t].id, 500, 0, NoJob)
            /\ UNCHANGED media
    /\ req' = [req EXCEPT ![t] = Idle]
    /\ UNCHANGED <<items, jobs, pc, session, clock, categories>>

NextCatalog ==
    \/ \E t \in Thread : \E payload \in ItemCreate : CreateItemBegin(t, payload)
    \/ \E t \in Thread : CreateItemCommit(t)
    \/ \E t \in Thread : \E item_id \in ItemId : \E update \in ItemUpdate :
          PatchItemBegin(t, item_id, update)
    \/ \E t \in Thread : PatchItemCommit(t)
    \/ \E t \in Thread : \E category_id \in CategoryId :
          DeleteCategoryBegin(t, category_id)
    \/ \E t \in Thread : DeleteCategoryCommit(t)
    \/ \E t \in Thread : \E media_id \in MediaId : DeleteMediaBegin(t, media_id)
    \/ \E t \in Thread : DeleteMediaCommit(t)

SpecCatalog == InitCatalog /\ [][NextCatalog]_vars

\* ------------------------------------------------------------ properties

Terminal == {COMPLETED, FAILED}

AllowedTransition ==
    {<<PENDING, IN_PROGRESS>>, <<IN_PROGRESS, COMPLETED>>, <<IN_PROGRESS, FAILED>>}

\* The message run_publish_job and publish_item pair with each status.
MessageOf(status) ==
    CASE status = COMPLETED -> PublishedMsg
      [] status = FAILED -> MissingMsg
      [] OTHER -> AcceptedMsg

\* The worker of job j found its item missing at line 88.
OnMissingPath(j) ==
    \/ pc[j] \in {PcFailStatus, PcFailMessage, PcFailStamp}
    \/ pc[j] = PcReturned /\ jobs[j].status = FAILED

\* C1: every change of a Job's status is PENDING -> IN_PROGRESS,
\* IN_PROGRESS -> COMPLETED or IN_PROGRESS -> FAILED, no Job leaves the
\* registry, and a poll returns the status the registry holds at that
\* moment, so successive polls of one id follow the same order.
C1_StatusMonotonic ==
    [][\A j \in DOMAIN jobs :
          /\ j \in DOMAIN jobs'
          /\ jobs'[j].status # jobs[j].status =>
                <<jobs[j].status, jobs'[j].status>> \in AllowedTransition
          /\ (response'.op = "get_job" /\ response'.arg = j) =>
                response'.body.status = jobs'[j].status]_vars

\* A poll has returned a Job that went through both transitions.
C1_Witness ==
    /\ response.op = "get_job"
    /\ response.code = 200
    /\ response.body.status = COMPLETED

\* C2: a publish request for an Item in the store adds exactly one Job
\* (PENDING, that item_id, created_at = updated_at = now, the acceptance
\* message), leaves the other Jobs as they are, schedules exactly the worker
\* of the new id and answers 202 with Location /jobs/{id} and the Job.
C2_PublishCreatesPendingJob ==
    [][(response'.op = "publish_item" /\ response'.arg \in DOMAIN items) =>
          \E id \in JobId \ DOMAIN jobs :
             /\ DOMAIN jobs' = DOMAIN jobs \cup {id}
             /\ \A k \in DOMAIN jobs : jobs'[k] = jobs[k]
             /\ jobs'[id].id = id
             /\ jobs'[id].item_id = response'.arg
             /\ jobs'[id].status = PENDING
             /\ jobs'[id].created_at = clock
             /\ jobs'[id].updated_at = jobs'[id].created_at
             /\ jobs'[id].result_message = AcceptedMsg
             /\ pc[id] = PcNone
             /\ pc' = [pc EXCEPT ![id] = PcScheduled]
             /\ response'.code = 202
             /\ response'.location = id
             /\ response'.body = jobs'[id]]_vars

\* A publish request has been accepted while another Job was in the registry.
C2_Witness ==
    /\ response.op = "publish_item"
    /\ response.code = 202
    /\ Cardinality(DOMAIN jobs) = 2
    /\ pc[response.location] = PcScheduled

\* C3: a worker that has ended, by returning or by an exception, has left
\* its Job COMPLETED or FAILED.  The worker has no loop and no wait, so under
\* fair scheduling it always ends: the claim is that it never ends with the
\* Job still PENDING or IN_PROGRESS.
C3_EndedWorkerLeftJobTerminal ==
    \A j \in DOMAIN jobs :
       pc[j] \in {PcReturned, PcRaised} => jobs[j].status \in Terminal

\* C4 as claimed: at the step that makes a Job COMPLETED its Item is in the
\* store with status ACTIVE.
C4_CompletedThenItemActive ==
    [][\A j \in DOMAIN jobs :
          (jobs'[j].status = COMPLETED /\ jobs[j].status # COMPLETED) =>
             /\ jobs[j].item_id \in DOMAIN items'
             /\ items'[jobs[j].item_id].status = ACTIVE]_vars

\* C4 as amended: a Job becomes COMPLETED only at line 101, which is reached
\* only through a commit that succeeded; right after that commit the Item is
\* in the store with the worker's timestamp, and with status ACTIVE if the
\* worker had read it as HIDDEN or SOLD.
C4_CompletedOnlyAfterCommit ==
    [][\A j \in DOMAIN jobs :
          /\ (jobs'[j].status = COMPLETED /\ jobs[j].status # COMPLETED) =>
                pc[j] = PcDoneStatus
          /\ (pc'[j] = PcDoneStatus /\ pc[j] # PcDoneStatus) =>
                /\ pc[j] = PcCommit
                /\ jobs[j].item_id \in DOMAIN items'
                /\ items'[jobs[j].item_id].updated_at = clock
                /\ session[j] # ACTIVE =>
                      items'[jobs[j].item_id].status = ACTIVE]_vars

\* A Job is COMPLETED while its Item is in the store as ACTIVE with a
\* timestamp written after the clock advanced.
C4_Witness ==
    \E j \in DOMAIN jobs :
       /\ jobs[j].status = COMPLETED
       /\ jobs[j].item_id \in DOMAIN items
       /\ items[jobs[j].item_id].status = ACTIVE
       /\ items[jobs[j].item_id].updated_at = 1

\* C5: a worker that finds its Item missing when it re-resolves it takes the
\* failure path; on that path the Job is never COMPLETED and the Item stays
\* absent; the path ends with the Job FAILED and the item-missing message.
C5_MissingItemFailsJob ==
    [][\A j \in DOMAIN jobs :
          /\ (pc[j] = PcSleep /\ pc'[j] # PcSleep
                /\ jobs[j].item_id \notin DOMAIN items) =>
                pc'[j] = PcFailStatus
          /\ OnMissingPath(j)' =>
                /\ jobs'[j].item_id \notin DOMAIN items'
                /\ jobs'[j].status # COMPLETED
          /\ (OnMissingPath(j) /\ pc'[j] = PcReturned) =>
                /\ jobs'[j].status = FAILED
                /\ jobs'[j].result_message = MissingMsg]_vars

\* A worker has finished on the failure path.
C5_Witness ==
    \E j \in DOMAIN jobs :
       /\ pc[j] = PcReturned
       /\ jobs[j].status = FAILED
       /\ jobs[j].result_message = MissingMsg
       /\ jobs[j].item_id \notin DOMAIN items

\* C6: once a Job's status is COMPLETED or FAILED no step changes any of
\* its fields.
C6_TerminalJobImmutable ==
    [][\A j \in DOMAIN jobs :
          jobs[j].status \in Terminal =>
             (j \in DOMAIN jobs' /\ jobs'[j] = jobs[j])]_vars

\* C7: a publish request for an id that is not in the store answers 404 and
\* changes neither the registry nor the store, and schedules no worker.
C7_PublishUnknownItem ==
    [][(response'.op = "publish_item" /\ response'.arg \notin DOMAIN items) =>
          /\ response'.code = 404
          /\ UNCHANGED <<jobs, items, pc>>]_vars

\* An unknown id has been refused while the registry held a Job.
C7_Witness ==
    /\ response.op = "publish_item"
    /\ response.code = 404
    /\ DOMAIN jobs # {}

\* C8: a worker whose commit raised has recorded the fault: its Job is
\* FAILED, not left IN_PROGRESS.
C8_CommitFaultFailsJob ==
    \A j \in DOMAIN jobs : pc[j] = PcRaised => jobs[j].status = FAILED

\* C9: every Job a poll returns pairs its status with the message of that
\* status.
C9_PollSeesWholeRecord ==
    (response.op = "get_job" /\ response.code = 200) =>
       response.body.result_message = MessageOf(response.body.status)

\* C10: a poll answers 200 with the Job the registry holds under the id, or
\* 404 if it holds none, and changes neither the registry nor the store.
C10_PollReadsRegistry ==
    [][response'.op = "get_job" =>
          /\ UNCHANGED <<jobs, items, pc>>
          /\ IF response'.arg \in DOMAIN jobs
             THEN response'.code = 200 /\ response'.body = jobs[response'.arg]
             ELSE response'.code = 404 /\ response'.body = NoJob]_vars

\* A poll has returned a Job its worker is working on.
C10_Witness ==
    /\ response.op = "get_job"
    /\ response.code = 200
    /\ response.arg \in DOMAIN jobs
    /\ response.body = jobs[response.arg]
    /\ response.body.status = IN_PROGRESS

\* C11: a Job is in the registry, PENDING, when its publish response is
\* produced; no step removes a Job or changes its id, item_id or created_at;
\* a poll of an id the registry holds never answers 404.
C11_JobsAreKept ==
    [][/\ (response'.op = "publish_item" /\ response'.code = 202) =>
             /\ response'.location \in DOMAIN jobs'
             /\ jobs'[response'.location].status \in {PENDING, IN_PROGRESS}
       /\ \A j \in DOMAIN jobs :
             /\ j \in DOMAIN jobs'
             /\ jobs'[j].id = jobs[j].id
             /\ jobs'[j].item_id = jobs[j].item_id
             /\ jobs'[j].created_at = jobs[j].created_at
             /\ (response'.op = "get_job" /\ response'.arg = j) =>
                   response'.code = 200]_vars

\* A poll has returned a Job whose Item is no longer in the store.
C11_Witness ==
    /\ response.op = "get_job"
    /\ response.code = 200
    /\ response.body.item_id \notin DOMAIN items

\* The job ids whose worker moved in this step.
WorkerMoved(j) == pc[j] # PcNone /\ pc'[j] # pc[j]

\* C12: a step of the worker of Job a changes neither the record, the
\* worker position nor the loaded row of another Job b, nor the row of b's
\* Item when it is a different Item; and where the worker of a goes next is
\* decided by a's own Item alone, so each Job ends as it would with its
\* worker running alone.
C12_WorkersDoNotInterfere ==
    [][\A a \in DOMAIN jobs :
          WorkerMoved(a) =>
             /\ \A b \in DOMAIN jobs \ {a} :
                   /\ b \in DOMAIN jobs' /\ jobs'[b] = jobs[b]
                   /\ pc'[b] = pc[b]
                   /\ session'[b] = session[b]
                   /\ (jobs[b].item_id # jobs[a].item_id
                         /\ jobs[b].item_id \in DOMAIN items) =>
                         /\ jobs[b].item_id \in DOMAIN items'
                         /\ items'[jobs[b].item_id] = items[jobs[b].item_id]
             /\ pc[a] = PcSleep =>
                   pc'[a] = IF jobs[a].item_id \in DOMAIN items
                            THEN PcCommit ELSE PcFailStatus
             /\ (pc[a] = PcCommit /\ jobs[a].item_id \notin DOMAIN items) =>
                   pc'[a] = PcRaised
             /\ pc[a] = PcCommit => pc'[a] \in {PcDoneStatus, PcRaised}]_vars

\* Two Jobs of two different Items have both run to the end, one COMPLETED
\* and one FAILED.
C12_Witness ==
    \E a, b \in DOMAIN jobs :
       /\ jobs[a].item_id # jobs[b].item_id
       /\ pc[a] = PcReturned /\ pc[b] = PcReturned
       /\ jobs[a].status = COMPLETED /\ jobs[b].status = FAILED

\* C13: the publish response carries the Job as stored, PENDING, with its
\* worker only scheduled and no worker moved by the request; a Job leaves
\* PENDING only by a later step of its worker, which answers no request.
C13_ResponseBeforeWorker ==
    [][/\ (response'.op = "publish_item" /\ response'.code = 202) =>
             /\ response'.body.status = PENDING
             /\ jobs'[response'.location].status = PENDING
             /\ pc'[response'.location] = PcScheduled
             /\ \A k \in JobId \ {response'.location} : pc'[k] = pc[k]
       /\ \A j \in DOMAIN jobs :
             (jobs[j].status = PENDING /\ jobs'[j].status # PENDING) =>
                /\ pc[j] = PcScheduled
                /\ pc'[j] = PcStampProgress
                /\ response'.op = "none"]_vars

\* A worker has made its first transition after the response.
C13_Witness ==
    \E j \in DOMAIN jobs :
       /\ pc[j] = PcStampProgress
       /\ jobs[j].status = IN_PROGRESS
       /\ response.op = "none"

\* C14: a worker is scheduled only by the publish request that creates its
\* Job and a worker that has ended never runs again; every accepted publish
\* request takes an id no Job has and leaves every existing Job and worker
\* as it is, whatever Jobs its Item already has.
C14_NoRetryNewJob ==
    [][/\ \A j \in JobId :
             /\ (pc'[j] = PcScheduled /\ pc[j] # PcScheduled) =>
                   /\ pc[j] = PcNone
                   /\ j \notin DOMAIN jobs
                   /\ response'.op = "publish_item"
                   /\ response'.location = j
             /\ pc[j] \in {PcReturned, PcRaised} => pc'[j] = pc[j]
       /\ (response'.op = "publish_item" /\ response'.code = 202) =>
             /\ response'.location \notin DOMAIN jobs
             /\ \A k \in DOMAIN jobs :
                   /\ k \in DOMAIN jobs' /\ jobs'[k] = jobs[k]
                   /\ pc'[k] = pc[k]]_vars

\* An Item whose first Job has ended has been published again as a new Job.
C14_Witness ==
    \E a, b \in DOMAIN jobs :
       /\ a # b
       /\ jobs[a].item_id = jobs[b].item_id
       /\ jobs[a].status = COMPLETED /\ pc[a] = PcReturned
       /\ jobs[b].status = PENDING
       /\ response.op = "publish_item" /\ response.location = b

\* C19: a step of the worker of Job j changes no Category, no Media and no
\* Item other than j's Item, and of j's Item only status and updated_at; the
\* store changes only at the commit of lines 96-98, so a worker on the
\* item-missing path writes nothing.
C19_WorkerWritesStatusOnly ==
    [][\A j \in DOMAIN jobs :
          WorkerMoved(j) =>
             /\ categories' = categories
             /\ media' = media
             /\ DOMAIN items' = DOMAIN items
             /\ \A i \in DOMAIN items :
                   /\ i # jobs[j].item_id => items'[i] = items[i]
                   /\ [items'[i] EXCEPT !.status = items[i].status,
                                        !.updated_at = items[i].updated_at]
                         = items[i]
             /\ pc[j] # PcCommit => items' = items
             /\ OnMissingPath(j)' => items' = items]_vars

\* A worker has committed ACTIVE to an Item that has media, next to another
\* Item that is not ACTIVE.
C19_Witness ==
    \E j \in DOMAIN jobs : \E i \in DOMAIN items :
       /\ pc[j] = PcDoneStatus
       /\ jobs[j].item_id \in DOMAIN items
       /\ items[jobs[j].item_id].status = ACTIVE
       /\ items[jobs[j].item_id].media # {}
       /\ items[jobs[j].item_id].updated_at = 1
       /\ i # jobs[j].item_id
       /\ items[i].status = SOLD

C15_ReferencesResolve ==
    \A i \in DOMAIN items :
       /\ items[i].category_id \in categories
       /\ \A m \in items[i].media : m \in media

\* An Item refers to a Category and a Media while requests that passed their
\* checks against an earlier store are still to commit, one of them a delete.
C15_Witness ==
    /\ \E i \in DOMAIN items : items[i].media # {}
    /\ \E t \in Thread : req[t].op \in {"delete_category", "delete_media"}
    /\ \E t \in Thread : req[t].op \in {"create_item", "update_item"}
    /\ categories # CategoryId

\* C16: a delete of a Category or Media that an Item references answers 400
\* and changes nothing; a delete of one that no Item references removes that
\* row and nothing else; a delete of an id that is not in the store when the
\* handler looks it up answers 404.
C16_DeleteAnswers ==
    [][/\ response'.op = "delete_category" =>
             LET c == response'.arg
             IN /\ /\ c \in categories
                   /\ \E i \in DOMAIN items : items[i].category_id = c
                   => /\ response'.code = 400
                      /\ UNCHANGED <<items, categories, media>>
                /\ /\ c \in categories
                   /\ ~ \E i \in DOMAIN items : items[i].category_id = c
                   => /\ response'.code = 204
                      /\ categories' = categories \ {c}
                      /\ UNCHANGED <<items, media>>
                /\ c \notin categories /\ req' = req => response'.code = 404
       /\ response'.op = "delete_media" =>
             LET m == response'.arg
             IN /\ /\ m \in media
                   /\ \E i \in DOMAIN items : m \in items[i].media
                   => /\ response'.code = 400
                      /\ UNCHANGED <<items, categories, media>>
                /\ /\ m \in media
                   /\ ~ \E i \in DOMAIN items : m \in items[i].media
                   => /\ response'.code = 204
                      /\ media' = media \ {m}
                      /\ UNCHANGED <<items, categories>>
                /\ m \notin media /\ req' = req => response'.code = 404]_vars

====
